---- MODULE Spec2Model ----
(***************************************************************************)
(* Model of the lexical scanner in src/lang/scan.rs: the Scanner cursor,   *)
(* its helpers (match_char, number, identifier), the multi-character       *)
(* resolver multi() and the main loop of source().                         *)
(*                                                                         *)
(* A character is a one-element string; an input is a sequence of          *)
(* characters.  The cursor `pos` is the number of characters the           *)
(* Enumerate<Chars> iterator has already yielded, so the next character    *)
(* is src[pos + 1].                                                        *)
(***************************************************************************)
EXTENDS Integers, Sequences, FiniteSets, TLC

\* ---------------------------------------------------------------- bounds
MaxLen == 3
MaxDigits == 2

\* ------------------------------------------------------ character classes
\* char::is_digit(10): the ASCII decimal digits.
Digit == {"0", "1", "2", "3", "4", "5", "6", "7", "8", "9"}

\* A character that is numeric for char::is_numeric() but is no decimal
\* digit (VULGAR FRACTION ONE HALF, general category No).
Half == "U+00BD"

\* char::is_numeric(): decimal digits and the other Unicode numerics.
Numeric == Digit \cup {Half}

\* char::is_alphabetic(): the letters the inputs of the model use.
Alphabetic == {"a", "b", "c", "g", "h", "i", "n", "t"}

is_identifier(terminal) == terminal \in Alphabetic \/ terminal \in Digit

\* --------------------------------------------------------------- tokens
Tok(t) == [type |-> t, text |-> <<>>]
TokText(t, s) == [type |-> t, text |-> s]

\* The arms of the match in source() that push a token directly.
SingleToken(terminal) ==
  CASE terminal = "}" -> Tok("RightBrace")
    [] terminal = "{" -> Tok("LeftBrace")
    [] terminal = "]" -> Tok("RightBracket")
    [] terminal = "[" -> Tok("LeftBracket")
    [] terminal = ")" -> Tok("RightParen")
    [] terminal = "(" -> Tok("LeftParen")
    [] terminal = "%" -> Tok("Mod")
    [] terminal = ";" -> Tok("Semicolon")
    [] terminal = ":" -> Tok("Colon")
    [] terminal = "=" -> Tok("Equal")

SingleChars == {"}", "{", "]", "[", ")", "(", "%", ";", ":", "="}

Whitespace == {" ", "\n"}

\* --------------------------------------------------------------- inputs
\* The characters the exhaustively enumerated inputs are built from: one
\* representative of every class the scanner distinguishes, and every
\* character some arm of source() or multi() names.
Alphabet ==
  {"1", Half, "a", "_", ".", ",", "(", ")", "{", "}", "[", "]", ":", ";",
   "%", "=", "!", "*", "-", "/", "+", "&", " ", "\n", "#"}

Strings(S, n) == UNION {[1..k -> S] : k \in 0..n}

DigitRuns == Strings({"1", "2"}, MaxDigits) \ {<<>>}

BinaryOps == {"+", "-", "*", "/"}

\* <digits><op><digits>;
BinaryInputs ==
  {l \o <<op>> \o r \o <<";">> : l \in DigitRuns, op \in BinaryOps, r \in DigitRuns}

PlusScenario ==
  <<"7", "8", "+", "1", "2", ";", "2", "3", "+", "=", "9", "8", ";">>

StarScenario == <<"1", "3", "*", "5", ";">>

SlashScenario ==
  <<"t", "h", "i", "n", "g", "=", "6", "4", ";", " ",
    "t", "h", "i", "n", "g", "/", "=", "1", "8", ";">>

DecimalScenario == <<"1", ".", "5">>

UnderscoreScenario == <<"a", "_", "b", "1">>

NumberIdentifierScenario == <<"1", "2", "3", "a", "b", "c">>

Scenarios ==
  {PlusScenario, StarScenario, SlashScenario, DecimalScenario, UnderscoreScenario,
   NumberIdentifierScenario}

Inputs == Strings(Alphabet, MaxLen) \cup BinaryInputs \cup Scenarios

\* -------------------------------------------------------------- scanner
NoCall == [called |-> FALSE, arg |-> "", before |-> 0, after |-> 0, ret |-> FALSE]

NoPeek ==
  [called |-> FALSE, arg |-> "", before |-> 0, after |-> 0, first |-> FALSE, second |-> FALSE]

\* peek advancing the scanner's own iterator instead of a copy.
peek_Consuming(src, p, terminal) ==
  IF p >= Len(src)
    THEN [ret |-> FALSE, pos |-> p]
    ELSE [ret |-> src[p + 1] = terminal, pos |-> p + 1]

\* Scanner::peek: next() is taken on a clone of self.source; returns the
\* answer and the cursor of self.source after the call.
peek(src, p, terminal) ==
  IF p >= Len(src)
    THEN [ret |-> FALSE, pos |-> p]
    ELSE [ret |-> src[p + 1] = terminal, pos |-> p]

\* Scanner::match_char: self.source.next() is taken first, the comparison
\* comes after it.  Returns the answer and the cursor after the call.
\* match_char as a lookahead that never takes a character.
match_char_Peek(src, p, terminal) ==
  IF p >= Len(src)
    THEN [ret |-> FALSE, pos |-> p]
    ELSE [ret |-> src[p + 1] = terminal, pos |-> p]

\* match_char taking the character only when it matches.
match_char_KeepOnFail(src, p, terminal) ==
  IF p >= Len(src)
    THEN [ret |-> FALSE, pos |-> p]
    ELSE [ret |-> src[p + 1] = terminal,
          pos |-> IF src[p + 1] = terminal THEN p + 1 ELSE p]

match_char(src, p, terminal) ==
  IF p >= Len(src)
    THEN [ret |-> FALSE, pos |-> p]
    ELSE [ret |-> src[p + 1] = terminal, pos |-> p + 1]

\* number()'s loop taking the next character before it tests it.
RECURSIVE number_loop_ConsumeBoundary(_, _, _)
number_loop_ConsumeBoundary(src, p, tok_str) ==
  IF p < Len(src)
    THEN IF src[p + 1] \in Digit
           THEN number_loop_ConsumeBoundary(src, p + 1, Append(tok_str, src[p + 1]))
           ELSE [tok |-> TokText("Number", tok_str), pos |-> p + 1]
    ELSE [tok |-> TokText("Number", tok_str), pos |-> p]

RECURSIVE number_loop(_, _, _)
number_loop(src, p, tok_str) ==
  IF p < Len(src) /\ src[p + 1] \in Digit
    THEN number_loop(src, p + 1, Append(tok_str, src[p + 1]))
    ELSE [tok |-> TokText("Number", tok_str), pos |-> p]

\* Scanner::number
number(src, p, init) == number_loop(src, p, <<init>>)

RECURSIVE identifier_loop(_, _, _)
identifier_loop(src, p, tok_str) ==
  IF p < Len(src) /\ is_identifier(src[p + 1])
    THEN identifier_loop(src, p + 1, Append(tok_str, src[p + 1]))
    ELSE [tok |-> TokText("Identifier", tok_str), pos |-> p]

\* Scanner::identifier
identifier(src, p, init) == identifier_loop(src, p, <<init>>)

McCall(src, p, c) ==
  LET m == match_char(src, p, c)
  IN  [called |-> TRUE, arg |-> c, before |-> p, after |-> m.pos, ret |-> m.ret]

\* Arm with the two results exchanged.
Arm_Swapped(src, p, c, two, one) ==
  LET m == match_char(src, p, c)
  IN  [ok |-> TRUE, tok |-> Tok(IF m.ret THEN one ELSE two), pos |-> m.pos,
       mc |-> McCall(src, p, c)]

\* An arm of multi() of the shape
\*   if scanner.match_char(c) { return Ok(two) } return Ok(one)
Arm(src, p, c, two, one) ==
  LET m == match_char(src, p, c)
  IN  [ok |-> TRUE, tok |-> Tok(IF m.ret THEN two ELSE one), pos |-> m.pos,
       mc |-> McCall(src, p, c)]

\* The tail of multi() without its is_alphabetic() test.
multi_tail_NoError(src, p, terminal, call) ==
  LET r == identifier(src, p, terminal)
  IN  [ok |-> TRUE, tok |-> r.tok, pos |-> r.pos, mc |-> call]

\* The tail of multi(): identifier or Error::Terminal.
multi_tail(src, p, terminal, call) ==
  IF terminal \in Alphabetic
    THEN LET r == identifier(src, p, terminal)
         IN  [ok |-> TRUE, tok |-> r.tok, pos |-> r.pos, mc |-> call]
    ELSE [ok |-> FALSE, tok |-> Tok("None"), pos |-> p, mc |-> call]

\* multi() with the lookahead of the '+' arm left out.
multi_NoMunch(src, p, terminal) ==
  CASE terminal = "!" -> Arm(src, p, "=", "BangEqual", "Bang")
    [] terminal = "*" -> Arm(src, p, "=", "StarEqual", "Star")
    [] terminal = "-" -> Arm(src, p, "=", "MinusEqual", "Minus")
    [] terminal = "/" -> Arm(src, p, "=", "SlashEqual", "Slash")
    [] terminal = "+" -> [ok |-> TRUE, tok |-> Tok("Plus"), pos |-> p, mc |-> NoCall]
    [] OTHER -> multi_tail(src, p, terminal, NoCall)

multi(src, p, terminal) ==
  CASE terminal = "=" -> Arm(src, p, "=", "EqualEqual", "Equal")
    [] terminal = "!" -> Arm(src, p, "=", "BangEqual", "Bang")
    [] terminal = "*" -> Arm(src, p, "=", "StarEqual", "Star")
    [] terminal = "-" -> Arm(src, p, "=", "MinusEqual", "Minus")
    [] terminal = "/" -> Arm(src, p, "=", "SlashEqual", "Slash")
    [] terminal = "&" ->
         LET m == match_char(src, p, "&")
         IN  IF m.ret
               THEN [ok |-> TRUE, tok |-> Tok("And"), pos |-> m.pos,
                     mc |-> McCall(src, p, "&")]
               ELSE multi_tail(src, m.pos, terminal, McCall(src, p, "&"))
    [] terminal = "+" -> Arm(src, p, "=", "PlusEqual", "Plus")
    [] OTHER -> multi_tail(src, p, terminal, NoCall)

\* ---------------------------------------------------------------- state
VARIABLES
  input,    \* the argument of source()
  pos,      \* scanner.source: how many characters it has yielded
  tokens,   \* the local Vec<Token> of source()
  skipped,  \* how many characters the ' ' | '\n' arm has discarded
  mc,       \* the last call of match_char: argument, cursor before and after, answer
  pk,       \* the last two consecutive calls of peek: argument, cursor, both answers
  pc,       \* "loop" while source() runs, "done" once it has returned
  result    \* the value source() returned

vars == <<input, pos, tokens, skipped, mc, pk, pc, result>>

NoResult == [kind |-> "None", tokens |-> <<>>, err |-> "None"]
Ok(ts) == [kind |-> "Ok", tokens |-> ts, err |-> "None"]
Err(e) == [kind |-> "Err", tokens |-> <<>>, err |-> e]

Init ==
  /\ input \in Inputs
  /\ pos = 0
  /\ tokens = <<>>
  /\ skipped = 0
  /\ mc = NoCall
  /\ pk = NoPeek
  /\ pc = "loop"
  /\ result = NoResult

\* SourceEnd with the push of Token::End left out.
SourceEnd_NoPush ==
  /\ pc = "loop"
  /\ pos >= Len(input)
  /\ result' = Ok(tokens)
  /\ pc' = "done"
  /\ UNCHANGED <<input, pos, tokens, skipped, mc, pk>>

\* scanner.source.next() yields nothing: push End, break, return Ok(tokens).
SourceEnd ==
  /\ pc = "loop"
  /\ pos >= Len(input)
  /\ tokens' = Append(tokens, Tok("End"))
  /\ result' = Ok(tokens')
  /\ pc' = "done"
  /\ UNCHANGED <<input, pos, skipped, mc, pk>>

\* terminal.is_numeric(): push scanner.number(terminal).
SourceNumber ==
  /\ pc = "loop"
  /\ pos < Len(input)
  /\ input[pos + 1] \in Numeric
  /\ LET r == number(input, pos + 1, input[pos + 1])
     IN  /\ tokens' = Append(tokens, r.tok)
         /\ pos' = r.pos
  /\ UNCHANGED <<input, skipped, mc, pc, result, pk>>

\* One of the arms that push a fixed token.
SourceSingle ==
  /\ pc = "loop"
  /\ pos < Len(input)
  /\ input[pos + 1] \notin Numeric
  /\ input[pos + 1] \in SingleChars
  /\ tokens' = Append(tokens, SingleToken(input[pos + 1]))
  /\ pos' = pos + 1
  /\ UNCHANGED <<input, skipped, mc, pc, result, pk>>

\* The whitespace arm pushing a token.
SourceSkip_Push ==
  /\ pc = "loop"
  /\ pos < Len(input)
  /\ input[pos + 1] \in Whitespace
  /\ pos' = pos + 1
  /\ skipped' = skipped + 1
  /\ tokens' = Append(tokens, Tok("Semicolon"))
  /\ UNCHANGED <<input, mc, pc, result, pk>>

\* The whitespace arm leaving the cursor where it is.
SourceSkip_NoAdvance ==
  /\ pc = "loop"
  /\ pos < Len(input)
  /\ input[pos + 1] \in Whitespace
  /\ skipped' = skipped + 1
  /\ UNCHANGED <<input, pos, tokens, mc, pc, result, pk>>

\* ' ' | '\n' => ()
SourceSkip ==
  /\ pc = "loop"
  /\ pos < Len(input)
  /\ input[pos + 1] \in Whitespace
  /\ pos' = pos + 1
  /\ skipped' = skipped + 1
  /\ UNCHANGED <<input, tokens, mc, pc, result, pk>>

\* _ => tokens.push(multi(&mut scanner, terminal)?)
SourceMulti ==
  /\ pc = "loop"
  /\ pos < Len(input)
  /\ input[pos + 1] \notin Numeric
  /\ input[pos + 1] \notin SingleChars
  /\ input[pos + 1] \notin Whitespace
  /\ LET r == multi(input, pos + 1, input[pos + 1])
     IN  /\ pos' = r.pos
         /\ mc' = IF r.mc.called THEN r.mc ELSE mc
         /\ IF r.ok
              THEN /\ tokens' = Append(tokens, r.tok)
                   /\ UNCHANGED <<pc, result>>
              ELSE /\ tokens' = <<>>
                   /\ result' = Err("Terminal")
                   /\ pc' = "done"
  /\ UNCHANGED <<input, skipped, pk>>

Next ==
  \/ SourceEnd
  \/ SourceNumber
  \/ SourceSingle
  \/ SourceSkip
  \/ SourceMulti

Spec == Init /\ [][Next]_vars

\* source() is a sequential loop: while an iteration can run, it runs.
SpecFair == Init /\ [][Next]_vars /\ WF_vars(Next)

\* ------------------------------------------- peek applied to a scanner
\* Scanner::peek has no caller in source(); it is applied here to a scanner
\* at every cursor position of a bounded set of inputs.
PeekChars == {"=", "&", "a"}

PeekInputs == Strings(PeekChars, MaxLen)

PeekInit ==
  /\ input \in PeekInputs
  /\ pos = 0
  /\ tokens = <<>>
  /\ skipped = 0
  /\ mc = NoCall
  /\ pk = NoPeek
  /\ pc = "loop"
  /\ result = NoResult

\* scanner.source.next()
PeekAdvance ==
  /\ pos < Len(input)
  /\ pos' = pos + 1
  /\ UNCHANGED <<input, tokens, skipped, mc, pk, pc, result>>

\* scanner.peek(c); scanner.peek(c)
PeekTwice ==
  /\ \E c \in PeekChars :
       LET first == peek(input, pos, c)
           second == peek(input, first.pos, c)
       IN  /\ pk' = [called |-> TRUE, arg |-> c, before |-> pos, after |-> second.pos,
                     first |-> first.ret, second |-> second.ret]
           /\ pos' = second.pos
  /\ UNCHANGED <<input, tokens, skipped, mc, pc, result>>

PeekNext ==
  \/ PeekAdvance
  \/ PeekTwice

SpecPeek == PeekInit /\ [][PeekNext]_vars

\* ------------------------------------------------------------ properties
Last(s) == s[Len(s)]

Done == pc = "done"

\* C1: whenever source() returns Ok(tokens), the last token is End and no
\* earlier token is End.
C1_EndExactlyOnceLast ==
  result.kind = "Ok" =>
    /\ Len(result.tokens) >= 1
    /\ Last(result.tokens).type = "End"
    /\ \A i \in 1..(Len(result.tokens) - 1) : result.tokens[i].type # "End"

\* A successful scan that returned several tokens before End.
C1_Witness ==
  /\ result.kind = "Ok"
  /\ Len(result.tokens) >= 3
  /\ Last(result.tokens).type = "End"

\* C2: a match_char call that returns false leaves the cursor where it was.
C2_FailedMatchKeepsCursor ==
  (mc.called /\ ~mc.ret) => mc.after = mc.before

\* The number of input characters a token stands for.
TokenChars(t) ==
  CASE t.type \in {"Number", "Identifier", "String"} -> Len(t.text)
    [] t.type \in {"SlashEqual", "StarEqual", "PlusPlus", "PlusEqual",
                   "MinusMinus", "MinusEqual", "BangEqual", "EqualEqual",
                   "GreaterEqual", "LessEqual", "And"} -> 2
    [] t.type = "End" -> 0
    [] OTHER -> 1

RECURSIVE SumChars(_)
SumChars(ts) == IF ts = <<>> THEN 0 ELSE TokenChars(Head(ts)) + SumChars(Tail(ts))

\* C3: on success, the characters of the emitted tokens plus the skipped
\* spaces and newlines add up to the length of the input.
C3_CharacterCoverage ==
  result.kind = "Ok" => SumChars(result.tokens) + skipped = Len(input)

BinaryOpToken(op) ==
  CASE op = "+" -> Tok("Plus")
    [] op = "-" -> Tok("Minus")
    [] op = "*" -> Tok("Star")
    [] op = "/" -> Tok("Slash")

Num(s) == TokText("Number", s)

\* C4: <digits><op><digits>; scans to [Number(left), op, Number(right),
\* Semicolon, End], and "78+12;23+=98;" scans to its nine tokens.
C4_OperandsPreserved ==
  Done =>
    /\ \A l \in DigitRuns, r \in DigitRuns, op \in BinaryOps :
         input = l \o <<op>> \o r \o <<";">> =>
           result = Ok(<<Num(l), BinaryOpToken(op), Num(r), Tok("Semicolon"), Tok("End")>>)
    /\ input = PlusScenario =>
         result = Ok(<<Num(<<"7", "8">>), Tok("Plus"), Num(<<"1", "2">>), Tok("Semicolon"),
                       Num(<<"2", "3">>), Tok("PlusEqual"), Num(<<"9", "8">>), Tok("Semicolon"),
                       Tok("End")>>)

EqualStarters == {"+", "-", "*", "/", "!"}

CompoundName(s) ==
  CASE s = "+" -> "PlusEqual"
    [] s = "-" -> "MinusEqual"
    [] s = "*" -> "StarEqual"
    [] s = "/" -> "SlashEqual"
    [] s = "!" -> "BangEqual"

SingleName(s) ==
  CASE s = "+" -> "Plus"
    [] s = "-" -> "Minus"
    [] s = "*" -> "Star"
    [] s = "/" -> "Slash"
    [] s = "!" -> "Bang"

\* C5: a starter of + - * / ! directly followed by '=' scans to the compound
\* token alone; the starter, a space, then '=' scans to the single-character
\* token followed by Equal.
C5_MaximalMunchEqual ==
  Done =>
    \A s \in EqualStarters :
      /\ input = <<s, "=">> => result = Ok(<<Tok(CompoundName(s)), Tok("End")>>)
      /\ input = <<s, " ", "=">> =>
           result = Ok(<<Tok(SingleName(s)), Tok("Equal"), Tok("End")>>)

\* The scan of "+=" has returned, its match_char('=') having matched.
C5_Witness ==
  /\ Done
  /\ input = <<"+", "=">>
  /\ mc.called /\ mc.ret
  /\ result.kind = "Ok"

\* C6: "==" scans to [EqualEqual, End]; an '=' not followed by '=' yields
\* Equal.
C6_EqualEqualMunch ==
  Done =>
    /\ input = <<"=", "=">> => result = Ok(<<Tok("EqualEqual"), Tok("End")>>)
    /\ input = <<"=">> => result = Ok(<<Tok("Equal"), Tok("End")>>)
    /\ input = <<"=", ";">> => result = Ok(<<Tok("Equal"), Tok("Semicolon"), Tok("End")>>)

\* C7: "++" scans to [PlusPlus, End] and "--" to [MinusMinus, End].
C7_IncrementDecrement ==
  Done =>
    /\ input = <<"+", "+">> => result = Ok(<<Tok("PlusPlus"), Tok("End")>>)
    /\ input = <<"-", "-">> => result = Ok(<<Tok("MinusMinus"), Tok("End")>>)

\* A maximal run of '&' of odd length: pairing the run from its left leaves
\* one '&' without a partner.
HasUnpairedAmp(src) ==
  \E i \in 1..Len(src) : \E j \in i..Len(src) :
    /\ \A k \in i..j : src[k] = "&"
    /\ i = 1 \/ src[i - 1] # "&"
    /\ j = Len(src) \/ src[j + 1] # "&"
    /\ (j - i + 1) % 2 = 1

\* C8: "&&" scans to the single token And, and an input with an '&' that no
\* second '&' follows makes source() return Err(Error::Terminal).
C8_AmpersandPairOrError ==
  Done =>
    /\ input = <<"&", "&">> => result = Ok(<<Tok("And"), Tok("End")>>)
    /\ HasUnpairedAmp(input) => result = Err("Terminal")

PunctuationSet == {"(", ")", "{", "}", "[", "]", ",", ".", ":", ";", "%"}

PunctuationName(c) ==
  CASE c = "(" -> "LeftParen"
    [] c = ")" -> "RightParen"
    [] c = "{" -> "LeftBrace"
    [] c = "}" -> "RightBrace"
    [] c = "[" -> "LeftBracket"
    [] c = "]" -> "RightBracket"
    [] c = "," -> "Comma"
    [] c = "." -> "Dot"
    [] c = ":" -> "Colon"
    [] c = ";" -> "Semicolon"
    [] c = "%" -> "Mod"

\* C9: each one-character input of ( ) { } [ ] , . : ; % scans to its own
\* token followed by End.
C9_SinglePunctuation ==
  Done =>
    \A c \in PunctuationSet :
      input = <<c>> => result = Ok(<<Tok(PunctuationName(c)), Tok("End")>>)

SupportedChars ==
  Digit \cup Alphabetic \cup PunctuationSet
    \cup {"=", "!", "*", "-", "/", "+", "&", " ", "\n"}

ValidInput(src) ==
  /\ \A i \in 1..Len(src) : src[i] \in SupportedChars
  /\ ~HasUnpairedAmp(src)

\* C10: on an input of supported characters only, with '&' only in pairs,
\* source() returns Ok with a sequence whose last element is End.
C10_TotalOnValidInput ==
  (Done /\ ValidInput(input)) =>
    /\ result.kind = "Ok"
    /\ Len(result.tokens) >= 1
    /\ Last(result.tokens).type = "End"

TokensOfType(ts, t) == {i \in 1..Len(ts) : ts[i].type = t}

Ident(s) == TokText("Identifier", s)

\* C11: a Number's text is the maximal run of digits and '.' from the
\* triggering digit: "1.5" scans to [Number("1.5"), End], and the text of a
\* Number holds nothing but digits and '.'.
C11_NumberRunWithDot ==
  /\ (Done /\ input = DecimalScenario) =>
       result = Ok(<<Num(<<"1", ".", "5">>), Tok("End")>>)
  /\ \A i \in TokensOfType(tokens, "Number") :
       \A k \in 1..Len(tokens[i].text) : tokens[i].text[k] \in Digit \cup {"."}

\* C12: an Identifier's text is the maximal run of alphabetic, digit or
\* underscore characters from an alphabetic character: "a_b1" scans to
\* [Identifier("a_b1"), End], and the text of an Identifier holds no
\* whitespace and no punctuation.
C12_IdentifierRunWithUnderscore ==
  /\ (Done /\ input = UnderscoreScenario) =>
       result = Ok(<<Ident(<<"a", "_", "b", "1">>), Tok("End")>>)
  /\ \A i \in TokensOfType(tokens, "Identifier") :
       \A k \in 1..Len(tokens[i].text) :
         tokens[i].text[k] \in Alphabetic \cup Digit \cup {"_"}

\* The class an accumulator extends its token with, as the code tests it.
InAccumulatorClass(type, c) ==
  IF type = "Number" THEN c \in Digit ELSE is_identifier(c)

\* A step of the main loop that pushed a Number or an Identifier.
PushedAccumulated ==
  /\ Len(tokens') = Len(tokens) + 1
  /\ Last(tokens').type \in {"Number", "Identifier"}

\* C13: an accumulator stops at the first character outside its class and
\* leaves it unconsumed for the next iteration of the main loop: the cursor
\* ends right behind the token's text, in front of a character that is not of
\* the class; and "123abc" scans to [Number("123"), Identifier("abc"), End].
C13_AccumulatorBoundary ==
  /\ [][PushedAccumulated =>
          /\ Last(tokens').text = SubSeq(input, pos + 1, pos')
          /\ pos' < Len(input) =>
               ~InAccumulatorClass(Last(tokens').type, input[pos' + 1])]_vars
  /\ []((Done /\ input = NumberIdentifierScenario) =>
          result = Ok(<<Num(<<"1", "2", "3">>), Ident(<<"a", "b", "c">>), Tok("End")>>))

\* The scan of "123abc" has returned its tokens.
C13_Witness ==
  /\ Done
  /\ input = NumberIdentifierScenario
  /\ result.kind = "Ok"
  /\ Len(result.tokens) = 3

MultiStarters == {"!", "*", "-", "/", "&", "+"}

\* A character no arm of source() or multi() accepts.
Unrecognized(c) ==
  c \notin Numeric \cup SingleChars \cup Whitespace \cup MultiStarters \cup Alphabetic

C15_SlashScenarioTokens ==
  (Done /\ input = SlashScenario) =>
    result = Ok(<<Ident(<<"t", "h", "i", "n", "g">>), Tok("Equal"), Num(<<"6", "4">>),
                  Tok("Semicolon"), Ident(<<"t", "h", "i", "n", "g">>), Tok("SlashEqual"),
                  Num(<<"1", "8">>), Tok("Semicolon"), Tok("End")>>)

\* The scan of "thing=64; thing/=18;" has returned.
C15_Witness ==
  /\ Done
  /\ input = SlashScenario
  /\ result.kind = "Ok"
  /\ mc.called /\ mc.ret

C19_WhitespaceOnly ==
  (Done /\ \A i \in 1..Len(input) : input[i] \in Whitespace) =>
    result = Ok(<<Tok("End")>>)

\* The scan of an input of several spaces and newlines has returned.
C19_Witness ==
  /\ Done
  /\ Len(input) >= 2
  /\ \A i \in 1..Len(input) : input[i] \in Whitespace
  /\ skipped = Len(input)

\* The spelling of a token in the source text.
Lexeme(t) ==
  CASE t.type \in {"Number", "Identifier", "String"} -> t.text
    [] t.type = "LeftParen" -> <<"(">>
    [] t.type = "RightParen" -> <<")">>
    [] t.type = "LeftBrace" -> <<"{">>
    [] t.type = "RightBrace" -> <<"}">>
    [] t.type = "LeftBracket" -> <<"[">>
    [] t.type = "RightBracket" -> <<"]">>
    [] t.type = "Comma" -> <<",">>
    [] t.type = "Dot" -> <<".">>
    [] t.type = "Colon" -> <<":">>
    [] t.type = "Semicolon" -> <<";">>
    [] t.type = "Slash" -> <<"/">>
    [] t.type = "SlashEqual" -> <<"/", "=">>
    [] t.type = "Star" -> <<"*">>
    [] t.type = "StarEqual" -> <<"*", "=">>
    [] t.type = "Mod" -> <<"%">>
    [] t.type = "Plus" -> <<"+">>
    [] t.type = "PlusPlus" -> <<"+", "+">>
    [] t.type = "PlusEqual" -> <<"+", "=">>
    [] t.type = "Minus" -> <<"-">>
    [] t.type = "MinusMinus" -> <<"-", "-">>
    [] t.type = "MinusEqual" -> <<"-", "=">>
    [] t.type = "Bang" -> <<"!">>
    [] t.type = "BangEqual" -> <<"!", "=">>
    [] t.type = "Equal" -> <<"=">>
    [] t.type = "EqualEqual" -> <<"=", "=">>
    [] t.type = "Greater" -> <<">">>
    [] t.type = "GreaterEqual" -> <<">", "=">>
    [] t.type = "Less" -> <<"<">>
    [] t.type = "LessEqual" -> <<"<", "=">>
    [] t.type = "And" -> <<"&", "&">>
    [] t.type = "End" -> <<>>

RECURSIVE Lexemes(_)
Lexemes(ts) == IF ts = <<>> THEN <<>> ELSE Lexeme(Head(ts)) \o Lexemes(Tail(ts))

\* a is b with some of its elements left out.
RECURSIVE IsSubsequence(_, _)
IsSubsequence(a, b) ==
  IF a = <<>> THEN TRUE
  ELSE IF b = <<>> THEN FALSE
  ELSE IF Head(a) = Head(b) THEN IsSubsequence(Tail(a), Tail(b))
  ELSE IsSubsequence(a, Tail(b))

\* C20: on success the lexemes of the tokens, concatenated in output order,
\* are a subsequence of the input, and no token is a Token::String.
C20_LexemesInSourceOrder ==
  result.kind = "Ok" =>
    /\ IsSubsequence(Lexemes(result.tokens), input)
    /\ TokensOfType(result.tokens, "String") = {}

\* A successful scan of several tokens in which a character was left out.
C20_Witness ==
  /\ result.kind = "Ok"
  /\ Len(result.tokens) >= 3
  /\ Len(Lexemes(result.tokens)) + skipped < Len(input)

\* C17: peek does not move the cursor, and two peek(c) calls in a row give
\* the same answer: true iff a next character exists and equals c.
C17_PeekIsPure ==
  pk.called =>
    /\ pk.after = pk.before
    /\ pk.second = pk.first
    /\ pk.first = (IF pk.before < Len(input) THEN input[pk.before + 1] = pk.arg ELSE FALSE)

\* Two peeks in the middle of an input that found the character asked for.
C17_Witness ==
  /\ pk.called
  /\ pk.before > 0
  /\ pk.first /\ pk.second
  /\ pos = pk.before

\* C18: source() terminates on every input: every iteration of the main loop
\* moves the cursor forward unless it returns, an accumulator moves it by one
\* for each character it appends, and the scan returns as soon as the cursor
\* is exhausted or the character read is unrecognized.
C18_Terminates ==
  /\ <>Done
  /\ [][pc = "loop" => (pos' > pos \/ (pos >= Len(input) /\ pc' = "done"))]_vars
  /\ [][PushedAccumulated => pos' - pos = Len(Last(tokens').text)]_vars
  /\ [][(pos >= Len(input) \/ Unrecognized(input[pos + 1])) => pc' = "done"]_vars

\* A scan that returned after iterations of every kind of step moved the
\* cursor to the end of the input.
C18_Witness ==
  /\ Done
  /\ result.kind = "Ok"
  /\ pos = Len(input)
  /\ skipped >= 1
  /\ Len(tokens) >= 3

====
